---- MODULE Spec2Model ----
(***************************************************************************)
(* Alarm configuration and threshold resolution of the Kinesis monitoring  *)
(* constructs: the six KinesisAlarmFactory operations, the generic         *)
(* AlarmFactory they delegate to, and the construction of a                *)
(* KinesisFirehoseMonitoring unit.                                         *)
(*                                                                         *)
(* JavaScript objects are functions from property names to values; a       *)
(* property that is absent reads as Undefined.  A Record whose insertion   *)
(* order matters is a sequence of [key, value] entries, oldest first.      *)
(* Numbers are [nan, v]: a finite integer v, or NaN.                       *)
(***************************************************************************)
EXTENDS Integers, Sequences, FiniteSets, TLC

VARIABLES
    mode,                    \* "unit": one construction; "factory": direct calls
    props,                   \* KinesisFirehoseMonitoringProps of the construction
    pc,                      \* position in the constructor
    i,                       \* position in the for-in loop that is running
    recordCountAnnotations,  \* this.recordCountAnnotations
    ageAnnotations,          \* this.ageAnnotations
    alarms,                  \* the unit's created-alarms collection
    scopeAlarms,             \* alarms registered with the enclosing scope
    calls,                   \* every KinesisAlarmFactory call made, in order
    consumed,                \* arguments of every useCreatedAlarms.consume call
    error                    \* the error that ended the construction, if any

vars == <<mode, props, pc, i, recordCountAnnotations, ageAnnotations, alarms,
          scopeAlarms, calls, consumed, error>>

----------------------------------------------------------------------------
(* Bounds *)

MaxEntries == 2
MaxCalls == 2

----------------------------------------------------------------------------
(* JavaScript values *)

Undefined == "<undefined>"

Num(n) == [nan |-> FALSE, v |-> n]
NaN == [nan |-> TRUE, v |-> 0]

Get(o, k) == IF k \in DOMAIN o THEN o[k] ELSE Undefined

\* a ?? b
Coalesce(a, b) == IF a = Undefined THEN b ELSE a

\* { ...target, ...source }: the later property wins
Assign(target, source) == source @@ target

Digits == <<"0", "1", "2", "3", "4", "5", "6", "7", "8", "9">>

RECURSIVE DecimalDigits(_)
DecimalDigits(n) ==
    IF n < 10 THEN Digits[n + 1]
    ELSE DecimalDigits(n \div 10) \o Digits[(n % 10) + 1]

\* `${x}` of a number
NumberToString(x) ==
    IF x.nan THEN "NaN"
    ELSE IF x.v < 0 THEN "-" \o DecimalDigits(0 - x.v)
    ELSE DecimalDigits(x.v)

IsFinite(x) == ~x.nan

Contains(s, t) ==
    \E j \in 1..(Len(s) - Len(t) + 1) : SubSeq(s, j, j + Len(t) - 1) = t

CharAt(s, j) == SubSeq(s, j, j)

IsDigit(c) == \E d \in 1..10 : Digits[d] = c

DigitValue(c) == (CHOOSE d \in 1..10 : Digits[d] = c) - 1

RECURSIVE ParseDecimal(_)
ParseDecimal(s) ==
    IF Len(s) = 0 THEN 0
    ELSE 10 * ParseDecimal(SubSeq(s, 1, Len(s) - 1)) + DigitValue(CharAt(s, Len(s)))

\* An integer-like property name: the canonical decimal form of an array
\* index.  Every modelled name is far below the largest index, 2^32 - 2.
IsArrayIndex(k) ==
    /\ Len(k) > 0
    /\ \A j \in 1..Len(k) : IsDigit(CharAt(k, j))
    /\ DecimalDigits(ParseDecimal(k)) = k

----------------------------------------------------------------------------
(* aws-cloudwatch enumerations *)

GREATER_THAN_THRESHOLD == "GreaterThanThreshold"
LESS_THAN_THRESHOLD == "LessThanThreshold"

BREACHING == "breaching"
NOT_BREACHING == "notBreaching"
MISSING == "missing"

----------------------------------------------------------------------------
(* KinesisAlarmFactory: each operation builds the object it hands to       *)
(* alarmFactory.addAlarm; the metric is passed through untouched.          *)

\* Variant: the comparison operator is the default whatever the override.
addIteratorMaxAgeAlarmFixedOperator(alarmProps, disambiguator) ==
    LET threshold == alarmProps.maxAgeInMillis
    IN  Assign(
          Assign(
            [treatMissingData |->
                 Coalesce(Get(alarmProps, "treatMissingDataOverride"), MISSING),
             comparisonOperator |-> GREATER_THAN_THRESHOLD],
            alarmProps),
          [disambiguator |-> disambiguator,
           threshold |-> threshold,
           alarmNameSuffix |-> "Iterator-Age-Max",
           alarmDescription |->
               "Iterator Max Age is too high.",
           alarmDedupeStringSuffix |-> "AnyDataStreamIteratorMaxAge"])

addIteratorMaxAgeAlarm(alarmProps, disambiguator) ==
    LET threshold == alarmProps.maxAgeInMillis
    IN  Assign(
          Assign(
            [treatMissingData |->
                 Coalesce(Get(alarmProps, "treatMissingDataOverride"), MISSING),
             comparisonOperator |->
                 Coalesce(Get(alarmProps, "comparisonOperatorOverride"),
                          GREATER_THAN_THRESHOLD)],
            alarmProps),
          [disambiguator |-> disambiguator,
           threshold |-> threshold,
           alarmNameSuffix |-> "Iterator-Age-Max",
           alarmDescription |-> "Iterator Max Age is too high.",
           alarmDedupeStringSuffix |-> "AnyDataStreamIteratorMaxAge"])

\* Variant: no dedupe suffix is supplied.
addOldAgeOfRecordAlarmNoDedupeSuffix(alarmProps, disambiguator) ==
    LET threshold == alarmProps.ageOfRecordThreshold
    IN  Assign(
          Assign(
            [treatMissingData |->
                 Coalesce(Get(alarmProps, "treatMissingDataOverride"), MISSING),
             comparisonOperator |->
                 Coalesce(Get(alarmProps, "comparisonOperatorOverride"),
                          GREATER_THAN_THRESHOLD)],
            alarmProps),
          [disambiguator |-> disambiguator,
           threshold |-> threshold,
           alarmNameSuffix |-> "Record-Max-Age",
           alarmDescription |->
               "Max Age of Record in firehose is too high."])

addOldAgeOfRecordAlarm(alarmProps, disambiguator) ==
    LET threshold == alarmProps.ageOfRecordThreshold
    IN  Assign(
          Assign(
            [treatMissingData |->
                 Coalesce(Get(alarmProps, "treatMissingDataOverride"), MISSING),
             comparisonOperator |->
                 Coalesce(Get(alarmProps, "comparisonOperatorOverride"),
                          GREATER_THAN_THRESHOLD)],
            alarmProps),
          [disambiguator |-> disambiguator,
           threshold |-> threshold,
           alarmNameSuffix |-> "Record-Max-Age",
           alarmDescription |-> "Max Age of Record in firehose is too high.",
           alarmDedupeStringSuffix |-> "MaxAgeOfRecordExceededInDeliveryStream"])

\* Variant: the dedupe suffix carries the disambiguator.
addPutRecordsThrottledAlarmDedupePerInstance(alarmProps, disambiguator) ==
    LET threshold == alarmProps.maxRecordsThrottledThreshold
    IN  Assign(
          Assign(
            [treatMissingData |->
                 Coalesce(Get(alarmProps, "treatMissingDataOverride"), NOT_BREACHING),
             comparisonOperator |->
                 Coalesce(Get(alarmProps, "comparisonOperatorOverride"),
                          GREATER_THAN_THRESHOLD)],
            alarmProps),
          [disambiguator |-> disambiguator,
           threshold |-> threshold,
           alarmNameSuffix |-> "PutRecordsThrottled",
           alarmDescription |->
               "Number of throttled PutRecords exceeded threshold of "
                   \o NumberToString(threshold),
           alarmDedupeStringSuffix |-> 
               IF disambiguator = Undefined THEN "PutRecordsThrottled"
               ELSE "PutRecordsThrottled-" \o disambiguator])

\* Variant: the disambiguator is not passed on.
addPutRecordsThrottledAlarmNoDisambiguator(alarmProps, disambiguator) ==
    LET threshold == alarmProps.maxRecordsThrottledThreshold
    IN  Assign(
          Assign(
            [treatMissingData |->
                 Coalesce(Get(alarmProps, "treatMissingDataOverride"), NOT_BREACHING),
             comparisonOperator |->
                 Coalesce(Get(alarmProps, "comparisonOperatorOverride"),
                          GREATER_THAN_THRESHOLD)],
            alarmProps),
          [disambiguator |-> Undefined,
           threshold |-> threshold,
           alarmNameSuffix |-> "PutRecordsThrottled",
           alarmDescription |->
               "Number of throttled PutRecords exceeded threshold of "
                   \o NumberToString(threshold),
           alarmDedupeStringSuffix |-> "PutRecordsThrottled"])

addPutRecordsThrottledAlarm(alarmProps, disambiguator) ==
    LET threshold == alarmProps.maxRecordsThrottledThreshold
    IN  Assign(
          Assign(
            [treatMissingData |->
                 Coalesce(Get(alarmProps, "treatMissingDataOverride"), NOT_BREACHING),
             comparisonOperator |->
                 Coalesce(Get(alarmProps, "comparisonOperatorOverride"),
                          GREATER_THAN_THRESHOLD)],
            alarmProps),
          [disambiguator |-> disambiguator,
           threshold |-> threshold,
           alarmNameSuffix |-> "PutRecordsThrottled",
           alarmDescription |->
               "Number of throttled PutRecords exceeded threshold of "
                   \o NumberToString(threshold),
           alarmDedupeStringSuffix |-> "PutRecordsThrottled"])

\* Variant: the missing-data default of the age kinds.
addPutRecordsFailedAlarmMissingDefault(alarmProps, disambiguator) ==
    LET threshold == alarmProps.maxRecordsFailedThreshold
    IN  Assign(
          Assign(
            [treatMissingData |->
                 Coalesce(Get(alarmProps, "treatMissingDataOverride"), MISSING),
             comparisonOperator |->
                 Coalesce(Get(alarmProps, "comparisonOperatorOverride"),
                          GREATER_THAN_THRESHOLD)],
            alarmProps),
          [disambiguator |-> disambiguator,
           threshold |-> threshold,
           alarmNameSuffix |-> "PutRecordsFailed",
           alarmDescription |->
               "Number of failed PutRecords exceeded threshold of "
                   \o NumberToString(threshold),
           alarmDedupeStringSuffix |-> "PutRecordsFailed"])

addPutRecordsFailedAlarm(alarmProps, disambiguator) ==
    LET threshold == alarmProps.maxRecordsFailedThreshold
    IN  Assign(
          Assign(
            [treatMissingData |->
                 Coalesce(Get(alarmProps, "treatMissingDataOverride"), NOT_BREACHING),
             comparisonOperator |->
                 Coalesce(Get(alarmProps, "comparisonOperatorOverride"),
                          GREATER_THAN_THRESHOLD)],
            alarmProps),
          [disambiguator |-> disambiguator,
           threshold |-> threshold,
           alarmNameSuffix |-> "PutRecordsFailed",
           alarmDescription |->
               "Number of failed PutRecords exceeded threshold of "
                   \o NumberToString(threshold),
           alarmDedupeStringSuffix |-> "PutRecordsFailed"])

\* Variant: a description without the threshold.
addProvisionedReadThroughputExceededAlarmPlainText(alarmProps, disambiguator) ==
    LET threshold == alarmProps.maxRecordsThrottledThreshold
    IN  Assign(
          Assign(
            [treatMissingData |->
                 Coalesce(Get(alarmProps, "treatMissingDataOverride"), NOT_BREACHING),
             comparisonOperator |->
                 Coalesce(Get(alarmProps, "comparisonOperatorOverride"),
                          GREATER_THAN_THRESHOLD)],
            alarmProps),
          [disambiguator |-> disambiguator,
           threshold |-> threshold,
           alarmNameSuffix |-> "ReadThroughputExceeded",
           alarmDescription |->
               "Number of records resulting in read throughput capacity throttling reached the threshold."])

addProvisionedReadThroughputExceededAlarm(alarmProps, disambiguator) ==
    LET threshold == alarmProps.maxRecordsThrottledThreshold
    IN  Assign(
          Assign(
            [treatMissingData |->
                 Coalesce(Get(alarmProps, "treatMissingDataOverride"), NOT_BREACHING),
             comparisonOperator |->
                 Coalesce(Get(alarmProps, "comparisonOperatorOverride"),
                          GREATER_THAN_THRESHOLD)],
            alarmProps),
          [disambiguator |-> disambiguator,
           threshold |-> threshold,
           alarmNameSuffix |-> "ReadThroughputExceeded",
           alarmDescription |->
               "Number of records resulting in read throughput capacity throttling reached the threshold of "
                   \o NumberToString(threshold) \o "."])

addProvisionedWriteThroughputExceededAlarm(alarmProps, disambiguator) ==
    LET threshold == alarmProps.maxRecordsThrottledThreshold
    IN  Assign(
          Assign(
            [treatMissingData |->
                 Coalesce(Get(alarmProps, "treatMissingDataOverride"), NOT_BREACHING),
             comparisonOperator |->
                 Coalesce(Get(alarmProps, "comparisonOperatorOverride"),
                          GREATER_THAN_THRESHOLD)],
            alarmProps),
          [disambiguator |-> disambiguator,
           threshold |-> threshold,
           alarmNameSuffix |-> "WriteThroughputExceeded",
           alarmDescription |->
               "Number of records resulting in write throughput capacity throttling reached the threshold of "
                   \o NumberToString(threshold) \o "."])

----------------------------------------------------------------------------
(* AlarmFactory: resolution, naming, dedupe key, registration.             *)
(* All modelled names lie in the identifier charset, on which the          *)
(* sanitization of names changes nothing.                                  *)

getName(namePrefix, p) ==
    Coalesce(Get(p, "alarmNameOverride"),
             namePrefix \o "-" \o p.alarmNameSuffix \o
                 (IF Get(p, "disambiguator") = Undefined
                  THEN ""
                  ELSE "-" \o p.disambiguator))

getDescription(p) ==
    Coalesce(Get(p, "alarmDescriptionOverride"), p.alarmDescription)

getDedupeString(namePrefix, p) ==
    Coalesce(Get(p, "alarmDedupeStringOverride"),
             IF Get(p, "alarmDedupeStringSuffix") # Undefined
             THEN p.alarmDedupeStringSuffix
             ELSE namePrefix \o "-" \o p.alarmNameSuffix)

AlarmNames(scope) == {scope[j].name : j \in 1..Len(scope)}

\* The error addAlarm raises, or Undefined when it creates the alarm.
addAlarmError(namePrefix, scope, p) ==
    IF ~IsFinite(p.threshold) THEN "InvalidThresholdError"
    ELSE IF getName(namePrefix, p) \in AlarmNames(scope)
         THEN "DuplicateAlarmNameError"
    ELSE Undefined

\* The Alarm Definition addAlarm creates, registers and returns.
addAlarmDefinition(namePrefix, p) ==
    [name |-> getName(namePrefix, p),
     description |-> getDescription(p),
     dedupeKey |-> getDedupeString(namePrefix, p),
     resolvedThreshold |-> p.threshold,
     resolvedComparisonOperator |->
         Coalesce(Get(p, "comparisonOperatorOverride"), p.comparisonOperator),
     resolvedMissingDataPolicy |->
         Coalesce(Get(p, "treatMissingDataOverride"), p.treatMissingData),
     annotation |-> [value |-> p.threshold, label |-> getName(namePrefix, p)]]

----------------------------------------------------------------------------
(* Inputs *)

Streams == {"OrdersStream", "PaymentsStream"}

Keys == {"a", "b", "2", "10"}

Disambiguators == {Undefined, "shard-0"}

\* Threshold Specifications whose kind-specific threshold is `field`.
Specifications(field) ==
    { (field :> Num(50)),
      (field :> Num(7)) @@
          [comparisonOperatorOverride |-> LESS_THAN_THRESHOLD,
           treatMissingDataOverride |-> BREACHING],
      (field :> Num(105)) @@
          [alarmNameOverride |-> "Custom-Alarm",
           alarmDescriptionOverride |-> "Custom description",
           alarmDedupeStringOverride |-> "CustomTicket"],
      (field :> NaN) }

\* Insertion sequences of m pairwise different property names.
KeySeqs(m) ==
    { ks \in [1..m -> Keys] : \A a, b \in 1..m : a # b => ks[a] # ks[b] }

\* Record<string, T> objects of at most n properties, as caller-built
\* insertion sequences with pairwise different keys.
RecordsOf(T, n) ==
    UNION { { [j \in 1..m |-> [key |-> ks[j], value |-> vs[j]]] :
                ks \in KeySeqs(m), vs \in [1..m -> T] } :
            m \in 0..n }

NoProps ==
    [deliveryStreamName |-> Undefined,
     addRecordsThrottledAlarm |-> <<>>,
     addDeliveryFreshnessAlarm |-> <<>>,
     useCreatedAlarms |-> FALSE]

----------------------------------------------------------------------------
(* for (const k in o): integer-like names ascending, then the other names  *)
(* in insertion order.                                                     *)

InsertionKeys(o) == [j \in 1..Len(o) |-> o[j].key]

RECURSIVE AscendingIndices(_)
AscendingIndices(ks) ==
    IF ks = {} THEN <<>>
    ELSE LET least == CHOOSE k \in ks :
                          \A other \in ks : ParseDecimal(k) <= ParseDecimal(other)
         IN  <<least>> \o AscendingIndices(ks \ {least})

\* Variant: integer-like names in insertion order, not ascending.
ForInIndicesUnsorted(o) ==
    SelectSeq(InsertionKeys(o), IsArrayIndex)
        \o SelectSeq(InsertionKeys(o), LAMBDA k : ~IsArrayIndex(k))

ForIn(o) ==
    AscendingIndices({o[j].key : j \in {n \in 1..Len(o) : IsArrayIndex(o[n].key)}})
        \o SelectSeq(InsertionKeys(o), LAMBDA k : ~IsArrayIndex(k))

\* o[k]
Lookup(o, k) == o[CHOOSE j \in 1..Len(o) : o[j].key = k].value

----------------------------------------------------------------------------
(* Monitoring: the unit's own bookkeeping *)

resolveAlarmFriendlyName(monitoringProps) == monitoringProps.deliveryStreamName

addAlarm(created, alarm) == Append(created, alarm)

createdAlarms == alarms

----------------------------------------------------------------------------
(* One KinesisAlarmFactory call: what it was given, what it handed to the  *)
(* AlarmFactory, and how that ended.                                       *)

CallRecord(operation, namePrefix, alarmProps, disambiguator, handed) ==
    [operation |-> operation,
     namePrefix |-> namePrefix,
     alarmProps |-> alarmProps,
     disambiguator |-> disambiguator,
     handed |-> handed,
     name |-> getName(namePrefix, handed),
     dedupeKey |-> getDedupeString(namePrefix, handed),
     error |-> addAlarmError(namePrefix, scopeAlarms, handed)]

Init ==
    /\ mode \in {"unit", "factory"}
    /\ IF mode = "unit"
       THEN /\ \E t \in RecordsOf(Specifications("maxRecordsThrottledThreshold"),
                                   MaxEntries) :
               \E f \in RecordsOf(Specifications("ageOfRecordThreshold"),
                                   MaxEntries - Len(t)) :
                  \E s \in Streams, u \in BOOLEAN :
                     props = [deliveryStreamName |-> s,
                              addRecordsThrottledAlarm |-> t,
                              addDeliveryFreshnessAlarm |-> f,
                              useCreatedAlarms |-> u]
            /\ pc = "throttled"
       ELSE /\ props = NoProps
            /\ pc = "idle"
    /\ i = 1
    /\ recordCountAnnotations = <<>>
    /\ ageAnnotations = <<>>
    /\ alarms = <<>>
    /\ scopeAlarms = <<>>
    /\ calls = <<>>
    /\ consumed = <<>>
    /\ error = Undefined

----------------------------------------------------------------------------
(* KinesisFirehoseMonitoring constructor *)

\* One iteration of the addRecordsThrottledAlarm loop.
ThrottledAlarmLoop ==
    /\ pc = "throttled"
    /\ i <= Len(ForIn(props.addRecordsThrottledAlarm))
    /\ LET disambiguator == ForIn(props.addRecordsThrottledAlarm)[i]
           alarmProps == Lookup(props.addRecordsThrottledAlarm, disambiguator)
           namePrefix == resolveAlarmFriendlyName(props)
           handed == addPutRecordsThrottledAlarm(alarmProps, disambiguator)
           call == CallRecord("addPutRecordsThrottledAlarm", namePrefix,
                              alarmProps, disambiguator, handed)
           createdAlarm == addAlarmDefinition(namePrefix, handed)
       IN  /\ calls' = Append(calls, call)
           /\ IF call.error # Undefined
              THEN /\ pc' = "failed"
                   /\ error' = call.error
                   /\ UNCHANGED <<i, recordCountAnnotations, alarms, scopeAlarms>>
              ELSE /\ scopeAlarms' = Append(scopeAlarms, createdAlarm)
                   /\ recordCountAnnotations' =
                          Append(recordCountAnnotations, createdAlarm.annotation)
                   /\ alarms' = addAlarm(alarms, createdAlarm)
                   /\ i' = i + 1
                   /\ UNCHANGED <<pc, error>>
    /\ UNCHANGED <<mode, props, ageAnnotations, consumed>>

\* Variant: the consumer is also called between the two loops.
ThrottledAlarmLoopEndConsuming ==
    /\ pc = "throttled"
    /\ i > Len(ForIn(props.addRecordsThrottledAlarm))
    /\ pc' = "freshness"
    /\ i' = 1
    /\ consumed' = IF props.useCreatedAlarms
                   THEN Append(consumed, createdAlarms)
                   ELSE consumed
    /\ UNCHANGED <<mode, props, recordCountAnnotations, ageAnnotations, alarms,
                   scopeAlarms, calls, error>>

ThrottledAlarmLoopEnd ==
    /\ pc = "throttled"
    /\ i > Len(ForIn(props.addRecordsThrottledAlarm))
    /\ pc' = "freshness"
    /\ i' = 1
    /\ UNCHANGED <<mode, props, recordCountAnnotations, ageAnnotations, alarms,
                   scopeAlarms, calls, consumed, error>>

\* Variant: the freshness annotation goes to the record-count collection.
DeliveryFreshnessAlarmLoopWrongCollection ==
    /\ pc = "freshness"
    /\ i <= Len(ForIn(props.addDeliveryFreshnessAlarm))
    /\ LET disambiguator == ForIn(props.addDeliveryFreshnessAlarm)[i]
           alarmProps == Lookup(props.addDeliveryFreshnessAlarm, disambiguator)
           namePrefix == resolveAlarmFriendlyName(props)
           handed == addOldAgeOfRecordAlarm(alarmProps, disambiguator)
           call == CallRecord("addOldAgeOfRecordAlarm", namePrefix,
                              alarmProps, disambiguator, handed)
           createdAlarm == addAlarmDefinition(namePrefix, handed)
       IN  /\ calls' = Append(calls, call)
           /\ IF call.error # Undefined
              THEN /\ pc' = "failed"
                   /\ error' = call.error
                   /\ UNCHANGED <<i, recordCountAnnotations, alarms, scopeAlarms>>
              ELSE /\ scopeAlarms' = Append(scopeAlarms, createdAlarm)
                   /\ recordCountAnnotations' =
                          Append(recordCountAnnotations, createdAlarm.annotation)
                   /\ alarms' = addAlarm(alarms, createdAlarm)
                   /\ i' = i + 1
                   /\ UNCHANGED <<pc, error>>
    /\ UNCHANGED <<mode, props, ageAnnotations, consumed>>

\* One iteration of the addDeliveryFreshnessAlarm loop.
DeliveryFreshnessAlarmLoop ==
    /\ pc = "freshness"
    /\ i <= Len(ForIn(props.addDeliveryFreshnessAlarm))
    /\ LET disambiguator == ForIn(props.addDeliveryFreshnessAlarm)[i]
           alarmProps == Lookup(props.addDeliveryFreshnessAlarm, disambiguator)
           namePrefix == resolveAlarmFriendlyName(props)
           handed == addOldAgeOfRecordAlarm(alarmProps, disambiguator)
           call == CallRecord("addOldAgeOfRecordAlarm", namePrefix,
                              alarmProps, disambiguator, handed)
           createdAlarm == addAlarmDefinition(namePrefix, handed)
       IN  /\ calls' = Append(calls, call)
           /\ IF call.error # Undefined
              THEN /\ pc' = "failed"
                   /\ error' = call.error
                   /\ UNCHANGED <<i, ageAnnotations, alarms, scopeAlarms>>
              ELSE /\ scopeAlarms' = Append(scopeAlarms, createdAlarm)
                   /\ ageAnnotations' =
                          Append(ageAnnotations, createdAlarm.annotation)
                   /\ alarms' = addAlarm(alarms, createdAlarm)
                   /\ i' = i + 1
                   /\ UNCHANGED <<pc, error>>
    /\ UNCHANGED <<mode, props, recordCountAnnotations, consumed>>

DeliveryFreshnessAlarmLoopEnd ==
    /\ pc = "freshness"
    /\ i > Len(ForIn(props.addDeliveryFreshnessAlarm))
    /\ pc' = "consume"
    /\ UNCHANGED <<mode, props, i, recordCountAnnotations, ageAnnotations, alarms,
                   scopeAlarms, calls, consumed, error>>

\* props.useCreatedAlarms?.consume(this.createdAlarms())
UseCreatedAlarms ==
    /\ pc = "consume"
    /\ consumed' = IF props.useCreatedAlarms
                   THEN Append(consumed, createdAlarms)
                   ELSE consumed
    /\ pc' = "done"
    /\ UNCHANGED <<mode, props, i, recordCountAnnotations, ageAnnotations, alarms,
                   scopeAlarms, calls, error>>

----------------------------------------------------------------------------
(* Direct calls of the KinesisAlarmFactory operations, each through the    *)
(* alarm factory of some resource, all registering in one scope.           *)

FactoryCall(operation, namePrefix, alarmProps, disambiguator, handed) ==
    /\ LET call == CallRecord(operation, namePrefix, alarmProps, disambiguator,
                              handed)
       IN  /\ calls' = Append(calls, call)
           /\ scopeAlarms' =
                  IF call.error # Undefined
                  THEN scopeAlarms
                  ELSE Append(scopeAlarms, addAlarmDefinition(namePrefix, handed))
    /\ UNCHANGED <<mode, props, pc, i, recordCountAnnotations, ageAnnotations,
                   alarms, consumed, error>>

IteratorMaxAgeAlarm ==
    \E namePrefix \in Streams, d \in Disambiguators,
       alarmProps \in Specifications("maxAgeInMillis") :
        /\ mode = "factory"
        /\ Len(calls) < MaxCalls
        /\ FactoryCall("addIteratorMaxAgeAlarm", namePrefix, alarmProps, d,
                       addIteratorMaxAgeAlarm(alarmProps, d))

OldAgeOfRecordAlarm ==
    \E namePrefix \in Streams, d \in Disambiguators,
       alarmProps \in Specifications("ageOfRecordThreshold") :
        /\ mode = "factory"
        /\ Len(calls) < MaxCalls
        /\ FactoryCall("addOldAgeOfRecordAlarm", namePrefix, alarmProps, d,
                       addOldAgeOfRecordAlarm(alarmProps, d))

PutRecordsThrottledAlarm ==
    \E namePrefix \in Streams, d \in Disambiguators,
       alarmProps \in Specifications("maxRecordsThrottledThreshold") :
        /\ mode = "factory"
        /\ Len(calls) < MaxCalls
        /\ FactoryCall("addPutRecordsThrottledAlarm", namePrefix, alarmProps, d,
                       addPutRecordsThrottledAlarm(alarmProps, d))

PutRecordsFailedAlarm ==
    \E namePrefix \in Streams, d \in Disambiguators,
       alarmProps \in Specifications("maxRecordsFailedThreshold") :
        /\ mode = "factory"
        /\ Len(calls) < MaxCalls
        /\ FactoryCall("addPutRecordsFailedAlarm", namePrefix, alarmProps, d,
                       addPutRecordsFailedAlarm(alarmProps, d))

\* The throughput operations require their disambiguator.
ProvisionedReadThroughputExceededAlarm ==
    \E namePrefix \in Streams, d \in Disambiguators \ {Undefined},
       alarmProps \in Specifications("maxRecordsThrottledThreshold") :
        /\ mode = "factory"
        /\ Len(calls) < MaxCalls
        /\ FactoryCall("addProvisionedReadThroughputExceededAlarm", namePrefix,
                       alarmProps, d,
                       addProvisionedReadThroughputExceededAlarm(alarmProps, d))

ProvisionedWriteThroughputExceededAlarm ==
    \E namePrefix \in Streams, d \in Disambiguators \ {Undefined},
       alarmProps \in Specifications("maxRecordsThrottledThreshold") :
        /\ mode = "factory"
        /\ Len(calls) < MaxCalls
        /\ FactoryCall("addProvisionedWriteThroughputExceededAlarm", namePrefix,
                       alarmProps, d,
                       addProvisionedWriteThroughputExceededAlarm(alarmProps, d))

Next ==
    \/ ThrottledAlarmLoop
    \/ ThrottledAlarmLoopEnd
    \/ DeliveryFreshnessAlarmLoop
    \/ DeliveryFreshnessAlarmLoopEnd
    \/ UseCreatedAlarms
    \/ IteratorMaxAgeAlarm
    \/ OldAgeOfRecordAlarm
    \/ PutRecordsThrottledAlarm
    \/ PutRecordsFailedAlarm
    \/ ProvisionedReadThroughputExceededAlarm
    \/ ProvisionedWriteThroughputExceededAlarm

Spec == Init /\ [][Next]_vars

----------------------------------------------------------------------------
(* Properties *)

Calls == {calls[j] : j \in 1..Len(calls)}

AgeOperations == {"addIteratorMaxAgeAlarm", "addOldAgeOfRecordAlarm"}

RateOperations ==
    {"addPutRecordsThrottledAlarm", "addPutRecordsFailedAlarm",
     "addProvisionedReadThroughputExceededAlarm",
     "addProvisionedWriteThroughputExceededAlarm"}

\* C1: in every call of a KinesisAlarmFactory operation, the comparison
\* operator handed to the Alarm Factory is comparisonOperatorOverride when the
\* Specification sets it, and greater-than-threshold when it does not.
OverridePrecedence ==
    \A c \in Calls :
        LET override == Get(c.alarmProps, "comparisonOperatorOverride")
        IN  /\ override # Undefined => c.handed.comparisonOperator = override
            /\ override = Undefined =>
                   c.handed.comparisonOperator = GREATER_THAN_THRESHOLD

\* C1 witness: one call with the override and one without have been made.
OverridePrecedenceWitness ==
    /\ \E c \in Calls :
           /\ Get(c.alarmProps, "comparisonOperatorOverride") = LESS_THAN_THRESHOLD
           /\ c.operation = "addIteratorMaxAgeAlarm"
    /\ \E c \in Calls :
           /\ Get(c.alarmProps, "comparisonOperatorOverride") = Undefined
           /\ c.operation = "addProvisionedWriteThroughputExceededAlarm"

\* C2: in every call, the missing-data policy handed to the Alarm Factory is
\* treatMissingDataOverride when set; otherwise "missing" for the two age
\* kinds and "not-breaching" for the four rate/count kinds.
MissingDataPolicy ==
    \A c \in Calls :
        LET override == Get(c.alarmProps, "treatMissingDataOverride")
        IN  c.handed.treatMissingData =
                IF override # Undefined THEN override
                ELSE IF c.operation \in AgeOperations THEN MISSING
                ELSE NOT_BREACHING

\* C2 witness: an age kind and a rate kind were both called without the
\* override.
MissingDataPolicyWitness ==
    /\ \E c \in Calls :
           /\ c.operation = "addOldAgeOfRecordAlarm"
           /\ Get(c.alarmProps, "treatMissingDataOverride") = Undefined
           /\ c.handed.treatMissingData = MISSING
    /\ \E c \in Calls :
           /\ c.operation = "addPutRecordsFailedAlarm"
           /\ Get(c.alarmProps, "treatMissingDataOverride") = Undefined
           /\ c.handed.treatMissingData = NOT_BREACHING

NoDedupeOverride(c) == Get(c.alarmProps, "alarmDedupeStringOverride") = Undefined

ThrottledDedupeShared ==
    \A c \in Calls :
        (c.operation = "addPutRecordsThrottledAlarm" /\ NoDedupeOverride(c))
        => c.dedupeKey = "PutRecordsThrottled"

\* C4 witness: an undisambiguated alarm on one stream and a "shard-0" alarm on
\* the other are registered under one dedupe key.
ThrottledDedupeWitness ==
    \E c, d \in Calls :
        /\ c.operation = "addPutRecordsThrottledAlarm"
        /\ d.operation = "addPutRecordsThrottledAlarm"
        /\ c.error = Undefined /\ d.error = Undefined
        /\ NoDedupeOverride(c) /\ NoDedupeOverride(d)
        /\ c.namePrefix = "OrdersStream" /\ c.disambiguator = Undefined
        /\ c.name = "OrdersStream-PutRecordsThrottled"
        /\ d.namePrefix = "PaymentsStream" /\ d.disambiguator = "shard-0"
        /\ d.name = "PaymentsStream-PutRecordsThrottled-shard-0"
        /\ Len(scopeAlarms) = 2
        /\ scopeAlarms[1].dedupeKey = scopeAlarms[2].dedupeKey

NoDescriptionOverride(c) ==
    Get(c.alarmProps, "alarmDescriptionOverride") = Undefined

\* C9 as stated: for every operation, the description supplied for a
\* Specification without alarmDescriptionOverride contains the threshold.
DescriptionHasThreshold ==
    \A c \in Calls :
        NoDescriptionOverride(c)
        => Contains(c.handed.alarmDescription, NumberToString(c.handed.threshold))

\* C9 amended: the description supplied by the four rate/count operations
\* contains the threshold; the two age operations supply a fixed text that
\* does not.
DescriptionHasThresholdForRates ==
    \A c \in Calls :
        NoDescriptionOverride(c)
        => /\ c.operation \in RateOperations =>
                  Contains(c.handed.alarmDescription,
                           NumberToString(c.handed.threshold))
           /\ c.operation = "addIteratorMaxAgeAlarm" =>
                  c.handed.alarmDescription = "Iterator Max Age is too high."
           /\ c.operation = "addOldAgeOfRecordAlarm" =>
                  c.handed.alarmDescription =
                      "Max Age of Record in firehose is too high."
           /\ c.operation \in AgeOperations =>
                  ~Contains(c.handed.alarmDescription,
                            NumberToString(c.handed.threshold))

\* C9 witness: a throttled alarm with threshold 50 whose description holds
\* "50", beside a read-throughput alarm.
DescriptionWitness ==
    /\ \E c \in Calls :
           /\ c.operation = "addPutRecordsThrottledAlarm"
           /\ NoDescriptionOverride(c)
           /\ c.alarmProps.maxRecordsThrottledThreshold = Num(50)
           /\ Contains(c.handed.alarmDescription, "50")
    /\ \E c \in Calls :
           /\ c.operation = "addProvisionedReadThroughputExceededAlarm"
           /\ NoDescriptionOverride(c)

----------------------------------------------------------------------------
(* Properties of one construction *)

\* The annotation of the alarm created for entry e of a family.
ThrottledAnnotation(e) ==
    addAlarmDefinition(resolveAlarmFriendlyName(props),
                       addPutRecordsThrottledAlarm(e.value, e.key)).annotation

FreshnessAnnotation(e) ==
    addAlarmDefinition(resolveAlarmFriendlyName(props),
                       addOldAgeOfRecordAlarm(e.value, e.key)).annotation

Built == pc \in {"consume", "done"}

\* C5 as stated: after construction each family's annotations are listed in
\* the insertion order of its mapping, whatever the disambiguator strings.
AnnotationsInInsertionOrder ==
    (mode = "unit" /\ Built)
    => /\ recordCountAnnotations =
              [j \in 1..Len(props.addRecordsThrottledAlarm) |->
                  ThrottledAnnotation(props.addRecordsThrottledAlarm[j])]
       /\ ageAnnotations =
              [j \in 1..Len(props.addDeliveryFreshnessAlarm) |->
                  FreshnessAnnotation(props.addDeliveryFreshnessAlarm[j])]

Position(o, k) == CHOOSE j \in 1..Len(o) : o[j].key = k

\* k is enumerated before l by a for-in loop over o.
EnumeratedBefore(o, k, l) ==
    IF IsArrayIndex(k) /\ IsArrayIndex(l) THEN ParseDecimal(k) < ParseDecimal(l)
    ELSE IF IsArrayIndex(k) THEN TRUE
    ELSE IF IsArrayIndex(l) THEN FALSE
    ELSE Position(o, k) < Position(o, l)

CallsOf(operation) == SelectSeq(calls, LAMBDA c : c.operation = operation)

FamilyInOrder(o, operation, annotations) ==
    LET made == CallsOf(operation)
    IN  /\ \A a, b \in 1..Len(made) :
               a < b => EnumeratedBefore(o, made[a].disambiguator,
                                         made[b].disambiguator)
        /\ \A j \in 1..Len(annotations) :
               annotations[j].label = made[j].name
        /\ (\A j \in 1..Len(o) : ~IsArrayIndex(o[j].key))
           => \A j \in 1..Len(made) : made[j].disambiguator = o[j].key

\* C5 amended: each family's entries are processed, and its annotations
\* listed, in for-in order: the disambiguators that are integer indices first,
\* in ascending numeric order, then the others in insertion order; so a
\* mapping without integer-index disambiguators keeps its insertion order.
AnnotationsInForInOrder ==
    mode = "unit"
    => /\ FamilyInOrder(props.addRecordsThrottledAlarm,
                        "addPutRecordsThrottledAlarm", recordCountAnnotations)
       /\ FamilyInOrder(props.addDeliveryFreshnessAlarm,
                        "addOldAgeOfRecordAlarm", ageAnnotations)
       /\ (Built /\ \A j \in 1..Len(props.addRecordsThrottledAlarm) :
                        ~IsArrayIndex(props.addRecordsThrottledAlarm[j].key))
          => recordCountAnnotations =
                 [j \in 1..Len(props.addRecordsThrottledAlarm) |->
                     ThrottledAnnotation(props.addRecordsThrottledAlarm[j])]
       /\ (Built /\ \A j \in 1..Len(props.addDeliveryFreshnessAlarm) :
                        ~IsArrayIndex(props.addDeliveryFreshnessAlarm[j].key))
          => ageAnnotations =
                 [j \in 1..Len(props.addDeliveryFreshnessAlarm) |->
                     FreshnessAnnotation(props.addDeliveryFreshnessAlarm[j])]

\* C5 witness: a built unit whose throttled mapping was filled "10" then "2"
\* and whose annotations are those of "2" then "10".
AnnotationsOrderWitness ==
    /\ mode = "unit" /\ pc = "done"
    /\ InsertionKeys(props.addRecordsThrottledAlarm) = <<"10", "2">>
    /\ Len(recordCountAnnotations) = 2
    /\ recordCountAnnotations[1].label = "OrdersStream-PutRecordsThrottled-2"
    /\ recordCountAnnotations[2].label = "OrdersStream-PutRecordsThrottled-10"

\* C6: the consumer is called only when the construction is complete and a
\* consumer was supplied, then exactly once, with all alarms of the unit, one
\* per entry of the two families.
ConsumedOnceAtEnd ==
    mode = "unit"
    => /\ pc # "done" => consumed = <<>>
       /\ (pc = "done" /\ ~props.useCreatedAlarms) => consumed = <<>>
       /\ (pc = "done" /\ props.useCreatedAlarms)
          => /\ consumed = <<alarms>>
             /\ Len(alarms) = Len(props.addRecordsThrottledAlarm)
                                + Len(props.addDeliveryFreshnessAlarm)

\* C6 witness: a consumer received one throttled and one freshness alarm.
ConsumedWitness ==
    /\ mode = "unit" /\ pc = "done" /\ props.useCreatedAlarms
    /\ Len(consumed) = 1
    /\ Len(consumed[1]) = 2
    /\ Len(recordCountAnnotations) = 1
    /\ Len(ageAnnotations) = 1

\* C7: when the Alarm Factory fails for an entry, nothing of the earlier
\* entries stays registered with the unit or the scope, and the consumer is
\* not called.
NothingLeftAfterFailure ==
    (mode = "unit" /\ pc = "failed")
    => /\ scopeAlarms = <<>>
       /\ alarms = <<>>
       /\ recordCountAnnotations = <<>>
       /\ ageAnnotations = <<>>
       /\ consumed = <<>>

NoNameOverride(c) == Get(c.alarmProps, "alarmNameOverride") = Undefined

CreatedBy(operation) ==
    LET made == SelectSeq(CallsOf(operation), LAMBDA c : c.error = Undefined)
    IN  [j \in 1..Len(made) |-> addAlarmDefinition(made[j].namePrefix, made[j].handed)]

IsPrefix(s, t) == Len(s) <= Len(t) /\ SubSeq(t, 1, Len(s)) = s

Bookkeeping ==
    mode = "unit"
    => LET throttled == CreatedBy("addPutRecordsThrottledAlarm")
           freshness == CreatedBy("addOldAgeOfRecordAlarm")
       IN  /\ alarms = throttled \o freshness
           /\ recordCountAnnotations =
                  [j \in 1..Len(throttled) |-> throttled[j].annotation]
           /\ ageAnnotations =
                  [j \in 1..Len(freshness) |-> freshness[j].annotation]
           /\ Len(alarms) = Len(recordCountAnnotations) + Len(ageAnnotations)
           /\ \A a, b \in 1..Len(calls) :
                  a < b => ~(/\ calls[a].operation = "addOldAgeOfRecordAlarm"
                             /\ calls[b].operation = "addPutRecordsThrottledAlarm")

\* C10: during and after a construction, the unit's alarms are the throttled
\* alarms created so far followed by the freshness alarms created so far,
\* recordCountAnnotations and ageAnnotations hold their annotations in the
\* same order, |alarms| = |recordCountAnnotations| + |ageAnnotations|, no
\* freshness alarm precedes a throttled one, and both annotation collections
\* only grow.
BookkeepingInvariant ==
    /\ []Bookkeeping
    /\ [][/\ IsPrefix(recordCountAnnotations, recordCountAnnotations')
          /\ IsPrefix(ageAnnotations, ageAnnotations')]_vars

\* C10 witness: a built unit with one throttled and one freshness alarm.
BookkeepingWitness ==
    /\ mode = "unit" /\ pc = "done"
    /\ Len(alarms) = 2
    /\ recordCountAnnotations = <<alarms[1].annotation>>
    /\ ageAnnotations = <<alarms[2].annotation>>
    /\ calls[1].operation = "addPutRecordsThrottledAlarm"
    /\ calls[2].operation = "addOldAgeOfRecordAlarm"

====
